---- MODULE Spec2Model ----
(***************************************************************************)
(* Model of the producer service (cmd/producer/main.go): process start-up  *)
(* (main, setUpRedis) and the request path (handleRequest, myRedis.write). *)
(* Strings of the program are sequences of byte values, so that the JSON   *)
(* encoder and the URL formatter are computed and not assumed.             *)
(***************************************************************************)
EXTENDS Integers, Sequences, FiniteSets, TLC

----------------------------------------------------------------------------
(* Bounds of the model *)

\* number of HTTP requests the dispatcher delivers in one run
NumReqs == 2
\* largest REQUEST_SIZE_LIMIT the environment supplies
MaxLimit == 1
\* longest request body a client sends: one byte past the largest limit
MaxBodyLen == MaxLimit + 1

Reqs == 1..NumReqs

----------------------------------------------------------------------------
(* Text literals, as bytes *)

\* "http://"
STR_http == <<104, 116, 116, 112, 58, 47, 47>>
\* "http"
STR_scheme == <<104, 116, 116, 112>>
\* "example.com"
STR_example == <<101, 120, 97, 109, 112, 108, 101, 46, 99, 111, 109>>
\* "b.io"
STR_other == <<98, 46, 105, 111>>
\* "/v1/foo"
STR_path == <<47, 118, 49, 47, 102, 111, 111>>
\* "x=1"
STR_query == <<120, 61, 49>>
\* "POST"
STR_post == <<80, 79, 83, 84>>
\* "Async-Original-Host"
STR_hostKey == <<65, 115, 121, 110, 99, 45, 79, 114, 105, 103, 105, 110,
                 97, 108, 45, 72, 111, 115, 116>>
\* "failed to publish "
STR_failed == <<102, 97, 105, 108, 101, 100, 32, 116, 111, 32, 112, 117,
                98, 108, 105, 115, 104, 32>>
\* "EOF", a broker-side failure of XADD
STR_eof == <<69, 79, 70>>
\* "dial", the client failing to reach its Addr
STR_dial == <<100, 105, 97, 108>>
\* "http: request body too large"
STR_tooLarge == <<104, 116, 116, 112, 58, 32, 114, 101, 113, 117, 101, 115,
                  116, 32, 98, 111, 100, 121, 32, 116, 111, 111, 32, 108,
                  97, 114, 103, 101>>
\* "unexpected EOF", the transport failing under the body read
STR_readErr == <<117, 110, 101, 120, 112, 101, 99, 116, 101, 100, 32, 69,
                 79, 70>>
\* identifiers gouuidv6 hands out, shortened: "1e" and "1f"
IDs == {<<49, 101>>, <<49, 102>>}

StatusAccepted == 202
StatusInternalServerError == 500

\* s contains sub as a contiguous run of bytes
Contains(s, sub) ==
    \E i \in 1..(Len(s) + 1) :
        /\ i + Len(sub) - 1 <= Len(s)
        /\ SubSeq(s, i, i + Len(sub) - 1) = sub

\* all sequences over S of length at most n
RECURSIVE SeqsUpTo(_, _)
SeqsUpTo(S, n) ==
    IF n = 0 THEN {<<>>}
    ELSE LET shorter == SeqsUpTo(S, n - 1)
         IN  shorter \cup {Append(s, b) : s \in shorter, b \in S}

----------------------------------------------------------------------------
(* Configuration and connection set-up *)

\* values of REDIS_ADDRESS, split into their syntactic parts
ADDR_url == <<"rediss", "://", "broker", ":", "6379">>
ADDR_urlNoPort == <<"redis", "://", "broker">>
ADDR_hostPort == <<"broker", ":", "6379">>
ADDR_garbage == <<"%zz">>
RedisAddresses == {ADDR_url, ADDR_urlNoPort, ADDR_hostPort, ADDR_garbage}

\* values of TLS_CERT: unset, text that is not PEM, a PEM block holding a
\* certificate, a PEM block whose contents are not a certificate
CERT_empty == <<>>
CERT_garbage == <<"not pem">>
CERT_valid == <<"-----BEGIN CERTIFICATE-----", "certificate DER",
                "-----END CERTIFICATE-----">>
CERT_badDER == <<"-----BEGIN CERTIFICATE-----", "junk",
                 "-----END CERTIFICATE-----">>
TlsCerts == {CERT_empty, CERT_garbage, CERT_valid, CERT_badDER}

\* the zero value of envInfo
ZeroEnv == [StreamName |-> "", RedisAddress |-> <<>>,
            RequestSizeLimit |-> 0, TlsCert |-> <<>>]

\* x509 CertPool.AppendCertsFromPEM: reports whether a certificate was parsed
AppendCertsFromPEM(cert) ==
    /\ Len(cert) = 3
    /\ cert[1] = "-----BEGIN CERTIFICATE-----"
    /\ cert[3] = "-----END CERTIFICATE-----"
    /\ cert[2] = "certificate DER"

\* redis.ParseURL: accepts scheme://host[:port] for the redis schemes and
\* yields Addr = host:port, the port defaulting to 6379
ParseURL(addr) ==
    IF /\ Len(addr) >= 3
       /\ addr[1] \in {"redis", "rediss"}
       /\ addr[2] = "://"
    THEN [ok |-> TRUE,
          addr |-> IF Len(addr) = 5 /\ addr[4] = ":"
                   THEN <<addr[3], ":", addr[5]>>
                   ELSE <<addr[3], ":", "6379">>]
    ELSE [ok |-> FALSE, addr |-> <<>>]

\* no client yet: the nil value of rc
NoClient == [set |-> FALSE, tls |-> FALSE, addr |-> <<>>]

\* the client of the branch taken when a certificate was found
TLSClient(e) ==
    LET opt == ParseURL(e.RedisAddress)
    IN  [fatal |-> ~opt.ok,
         client |-> [set |-> TRUE, tls |-> TRUE, addr |-> opt.addr]]

\* the client of the branch taken when no certificate was found
PlainClient(e) ==
    [fatal |-> FALSE,
     client |-> [set |-> TRUE, tls |-> FALSE, addr |-> e.RedisAddress]]

\* a client can reach a broker only at an Addr of the form host:port
Dialable(addr) == Len(addr) = 3 /\ addr[2] = ":" /\ addr[1] # "" /\ addr[3] # ""

----------------------------------------------------------------------------
(* The request body reader *)

Min(a, b) == IF a < b THEN a ELSE b

ReadAll_offByOne(body, limit, transportFails) ==
    LET n == IF Len(body) < limit + 1 THEN Len(body) ELSE limit + 1
    IN  IF transportFails
        THEN [b |-> <<>>, err |-> STR_readErr]
        ELSE IF n < limit
        THEN [b |-> SubSeq(body, 1, n), err |-> <<>>]
        ELSE [b |-> SubSeq(body, 1, limit), err |-> STR_tooLarge]

\* ioutil.ReadAll over http.MaxBytesReader(w, r.Body, limit): the reader asks
\* the transport for at most limit+1 bytes; more than limit bytes arriving is
\* the "request body too large" error, a transport failure is passed on
ReadAll(body, limit, transportFails) ==
    LET n == Min(Len(body), limit + 1)
    IN  IF transportFails
        THEN [b |-> <<>>, err |-> STR_readErr]
        ELSE IF n <= limit
        THEN [b |-> SubSeq(body, 1, n), err |-> <<>>]
        ELSE [b |-> SubSeq(body, 1, limit), err |-> STR_tooLarge]

----------------------------------------------------------------------------
(* The request URL *)

\* http.Header.Get: the first value stored under the key, or ""
HeaderGet(header, key) ==
    IF \E kv \in header : kv[1] = key /\ Len(kv[2]) > 0
    THEN (CHOOSE kv \in header : kv[1] = key)[2][1]
    ELSE <<>>

\* url.URL.String of the parsed request target: scheme and authority when
\* the target carried them, then the escaped path, then "?" and the query
URLString(u) ==
    LET scheme == IF u.Scheme # <<>> THEN u.Scheme \o <<58>> ELSE <<>>
        authority ==
            IF u.Scheme # <<>> \/ u.Host # <<>>
            THEN (IF u.Host # <<>> \/ u.Path # <<>> THEN <<47, 47>> ELSE <<>>)
                 \o u.Host
            ELSE <<>>
        slash == IF u.Path # <<>> /\ u.Path[1] # 47 /\ u.Host # <<>>
                 THEN <<47>> ELSE <<>>
        query == IF u.RawQuery # <<>> THEN <<63>> \o u.RawQuery ELSE <<>>
    IN  scheme \o authority \o slash \o u.Path \o query

----------------------------------------------------------------------------
(* encoding/json on strings *)

\* a UTF-8 continuation byte
Cont(b) == b >= 128 /\ b <= 191

\* utf8.DecodeRuneInString at position i of s: the rune and its width; an
\* invalid or truncated encoding is (RuneError, 1)
DecodeRune(s, i) ==
    LET n == Len(s) - i + 1
        b0 == s[i]
        b1 == IF n >= 2 THEN s[i + 1] ELSE 0
        b2 == IF n >= 3 THEN s[i + 2] ELSE 0
        b3 == IF n >= 4 THEN s[i + 3] ELSE 0
        bad == [rune |-> 65533, size |-> 1]
    IN  IF b0 < 128 THEN [rune |-> b0, size |-> 1]
        ELSE IF b0 >= 194 /\ b0 <= 223
        THEN IF n >= 2 /\ Cont(b1)
             THEN [rune |-> (b0 % 32) * 64 + (b1 % 64), size |-> 2]
             ELSE bad
        ELSE IF b0 >= 224 /\ b0 <= 239
        THEN IF /\ n >= 3
                /\ b1 >= (IF b0 = 224 THEN 160 ELSE 128)
                /\ b1 <= (IF b0 = 237 THEN 159 ELSE 191)
                /\ Cont(b2)
             THEN [rune |-> (b0 % 16) * 4096 + (b1 % 64) * 64 + (b2 % 64),
                   size |-> 3]
             ELSE bad
        ELSE IF b0 >= 240 /\ b0 <= 244
        THEN IF /\ n >= 4
                /\ b1 >= (IF b0 = 240 THEN 144 ELSE 128)
                /\ b1 <= (IF b0 = 244 THEN 143 ELSE 191)
                /\ Cont(b2)
                /\ Cont(b3)
             THEN [rune |-> (b0 % 8) * 262144 + (b1 % 64) * 4096
                            + (b2 % 64) * 64 + (b3 % 64),
                   size |-> 4]
             ELSE bad
        ELSE bad

\* utf8.EncodeRune: surrogates and out-of-range values encode as U+FFFD
EncodeRune(r) ==
    IF r < 128 THEN <<r>>
    ELSE IF r < 2048 THEN <<192 + (r \div 64), 128 + (r % 64)>>
    ELSE IF (r >= 55296 /\ r <= 57343) \/ r > 1114111 THEN <<239, 191, 189>>
    ELSE IF r < 65536
    THEN <<224 + (r \div 4096), 128 + ((r \div 64) % 64), 128 + (r % 64)>>
    ELSE <<240 + (r \div 262144), 128 + ((r \div 4096) % 64),
           128 + ((r \div 64) % 64), 128 + (r % 64)>>

\* the digit d of "0123456789abcdef"
HexChar(d) == IF d < 10 THEN 48 + d ELSE 87 + d

\* the value of a hexadecimal digit character
HexVal(c) ==
    IF c >= 48 /\ c <= 57 THEN c - 48
    ELSE IF c >= 97 /\ c <= 102 THEN c - 87
    ELSE c - 55

\* htmlSafeSet: the ASCII bytes the encoder copies unescaped
HtmlSafe(b) == b >= 32 /\ b \notin {34, 92, 60, 62, 38}

\* the body of encodeState.string: the bytes written for s from position i
RECURSIVE EncFrom(_, _)
EncFrom(s, i) ==
    IF i > Len(s) THEN <<>>
    ELSE LET b == s[i] IN
         IF b < 128
         THEN (IF HtmlSafe(b) THEN <<b>>
               ELSE IF b \in {34, 92} THEN <<92, b>>
               ELSE IF b = 10 THEN <<92, 110>>
               ELSE IF b = 13 THEN <<92, 114>>
               ELSE IF b = 9 THEN <<92, 116>>
               ELSE <<92, 117, 48, 48, HexChar(b \div 16), HexChar(b % 16)>>)
              \o EncFrom(s, i + 1)
         ELSE LET d == DecodeRune(s, i) IN
              IF d.rune = 65533 /\ d.size = 1
              THEN <<92, 117, 102, 102, 102, 100>> \o EncFrom(s, i + 1)
              ELSE IF d.rune \in {8232, 8233}
              THEN <<92, 117, 50, 48, 50, HexChar(d.rune % 16)>>
                   \o EncFrom(s, i + d.size)
              ELSE SubSeq(s, i, i + d.size - 1) \o EncFrom(s, i + d.size)

\* json.Marshal of a Go string: the quoted JSON literal
EncString(s) == <<34>> \o EncFrom(s, 1) \o <<34>>

\* the body of unquote: the bytes a JSON literal's contents stand for
RECURSIVE DecFrom(_, _)
DecFrom(s, i) ==
    IF i > Len(s) THEN <<>>
    ELSE LET c == s[i] IN
         IF c = 92
         THEN LET e == s[i + 1] IN
              IF e = 117
              THEN EncodeRune(((HexVal(s[i + 2]) * 16 + HexVal(s[i + 3])) * 16
                               + HexVal(s[i + 4])) * 16 + HexVal(s[i + 5]))
                   \o DecFrom(s, i + 6)
              ELSE <<(IF e = 98 THEN 8
                      ELSE IF e = 102 THEN 12
                      ELSE IF e = 110 THEN 10
                      ELSE IF e = 114 THEN 13
                      ELSE IF e = 116 THEN 9
                      ELSE e)>> \o DecFrom(s, i + 2)
         ELSE IF c < 128 THEN <<c>> \o DecFrom(s, i + 1)
         ELSE LET d == DecodeRune(s, i) IN
              EncodeRune(d.rune) \o DecFrom(s, i + d.size)

\* json.Unmarshal of a JSON string literal into a Go string
DecString(q) == DecFrom(SubSeq(q, 2, Len(q) - 1), 1)

\* json.Marshal of a requestData: each field under its json tag, every
\* string (header names and values included) through the string encoder
Marshal(d) ==
    [id |-> EncString(d.ID),
     url |-> EncString(d.ReqURL),
     body |-> EncString(d.ReqBody),
     header |-> {<<EncString(kv[1]),
                   [i \in 1..Len(kv[2]) |-> EncString(kv[2][i])]>> :
                 kv \in d.ReqHeader},
     method |-> EncString(d.ReqMethod)]

\* json.Unmarshal into a requestData
Unmarshal(j) ==
    [ID |-> DecString(j.id),
     ReqURL |-> DecString(j.url),
     ReqBody |-> DecString(j.body),
     ReqHeader |-> {<<DecString(kv[1]),
                      [i \in 1..Len(kv[2]) |-> DecString(kv[2][i])]>> :
                    kv \in j.header},
     ReqMethod |-> DecString(j.method)]

\* fmt.Errorf("failed to publish %q: %v", id, cause)
PublishError_noId(id, cause) == STR_failed \o <<58, 32>> \o cause
PublishError(id, cause) ==
    STR_failed \o <<34>> \o id \o <<34>> \o <<58, 32>> \o cause

----------------------------------------------------------------------------
(* State *)

VARIABLES
    mainPC,     \* position of main: "start", "configured", "setup",
                \* "serving", "exited"
    env,        \* the global env
    rc,         \* the global rc
    pc,         \* per request: "idle", "xadd", "returned", "done"
    req,        \* per request: the *http.Request handed to the handler
    reqData,    \* per request: the requestData built
    reqJSON,    \* per request: the bytes handed to write
    resp,       \* per request: what the ResponseWriter was given
    logs,       \* per request: the log records emitted
    xaddCalls,  \* per request: calls of client.XAdd
    cmd,        \* per request: the command XAdd returned
    stream      \* the entries of the broker's stream

vars == <<mainPC, env, rc, pc, req, reqData, reqJSON, resp, logs,
          xaddCalls, cmd, stream>>

\* request targets: origin form with and without a query, absolute form
URL_origin == [Scheme |-> <<>>, Host |-> <<>>, Path |-> STR_path,
               RawQuery |-> STR_query]
URL_noQuery == [Scheme |-> <<>>, Host |-> <<>>, Path |-> STR_path,
                RawQuery |-> <<>>]
URL_absolute == [Scheme |-> STR_scheme, Host |-> STR_other,
                 Path |-> STR_path, RawQuery |-> STR_query]

\* header maps: the forwarded-host header once, twice, not at all
HDR_one == {<<STR_hostKey, <<STR_example>>>>}
HDR_two == {<<STR_hostKey, <<STR_example, STR_other>>>>}
HDR_none == {}

\* body bytes: 'A', '<', the two bytes of U+00E9, and 0xFF
BodyBytes == {65, 60, 195, 169, 255}

\* the requests of the concurrent runs differ in body length only
NarrowInputs ==
    [Method : {STR_post}, URL : {URL_origin}, Header : {HDR_one},
     Body : SeqsUpTo({65}, MaxBodyLen), TransportFails : BOOLEAN]

\* the requests of the single-request runs vary in every part
WideInputs ==
    [Method : {STR_post}, URL : {URL_origin, URL_noQuery, URL_absolute},
     Header : {HDR_one, HDR_two, HDR_none},
     Body : SeqsUpTo(BodyBytes, MaxBodyLen), TransportFails : BOOLEAN]

NoReq == [Method |-> <<>>, URL |-> URL_noQuery, Header |-> {},
          Body |-> <<>>, TransportFails |-> FALSE]
ZeroData == [ID |-> <<>>, ReqURL |-> <<>>, ReqBody |-> <<>>,
             ReqHeader |-> {}, ReqMethod |-> <<>>]
NoJSON == [id |-> <<>>, url |-> <<>>, body |-> <<>>, header |-> {},
           method |-> <<>>]
NoCmd == [returned |-> FALSE, err |-> <<>>]

Init ==
    /\ mainPC = "start"
    /\ env = ZeroEnv
    /\ rc = NoClient
    /\ pc = [r \in Reqs |-> "idle"]
    /\ req = [r \in Reqs |-> NoReq]
    /\ reqData = [r \in Reqs |-> ZeroData]
    /\ reqJSON = [r \in Reqs |-> NoJSON]
    /\ resp = [r \in Reqs |-> [status |-> 0, body |-> <<>>]]
    /\ logs = [r \in Reqs |-> <<>>]
    /\ xaddCalls = [r \in Reqs |-> 0]
    /\ cmd = [r \in Reqs |-> NoCmd]
    /\ stream = <<>>

----------------------------------------------------------------------------
(* main *)

\* envconfig.Process: fills env from the environment, or fails and the
\* process exits
LoadEnv ==
    /\ mainPC = "start"
    /\ \/ /\ mainPC' = "exited"
          /\ env' = env
       \/ /\ \E a \in RedisAddresses, n \in 0..MaxLimit, c \in TlsCerts :
                env' = [StreamName |-> "requests", RedisAddress |-> a,
                        RequestSizeLimit |-> n, TlsCert |-> c]
          /\ mainPC' = "configured"
    /\ UNCHANGED <<rc, pc, req, reqData, reqJSON, resp, logs, xaddCalls,
                   cmd, stream>>

\* rc = setUpRedis()
SetUpRedis ==
    /\ mainPC = "configured"
    /\ LET certFound == AppendCertsFromPEM(env.TlsCert)
           built == IF certFound THEN TLSClient(env) ELSE PlainClient(env)
       IN  IF built.fatal
           THEN mainPC' = "exited" /\ rc' = rc
           ELSE mainPC' = "setup" /\ rc' = built.client
    /\ UNCHANGED <<env, pc, req, reqData, reqJSON, resp, logs, xaddCalls,
                   cmd, stream>>

\* http.HandleFunc and http.ListenAndServe: the listener starts, or cannot
\* and the process exits
ListenAndServe ==
    /\ mainPC = "setup"
    /\ mainPC' \in {"serving", "exited"}
    /\ UNCHANGED <<env, rc, pc, req, reqData, reqJSON, resp, logs,
                   xaddCalls, cmd, stream>>

----------------------------------------------------------------------------
(* handleRequest and myRedis.write *)

\* the test of the read's error
ReadFailed_ignored(read) == FALSE
ReadFailed(read) == read.err # <<>>

\* the log records of a failed read
ReadFailureLogs_silent(err) ==
    IF err = STR_tooLarge
    THEN <<[msg |-> "HTTP Request body too large ", err |-> err]>>
    ELSE <<>>
ReadFailureLogs(err) ==
    IF err = STR_tooLarge
    THEN <<[msg |-> "HTTP Request body too large ", err |-> err]>>
    ELSE <<[msg |-> "Error writing to buffer: ", err |-> err]>>

\* the requestData literal
BuildRequestData(id, in, b) ==
    [ID |-> id,
     ReqBody |-> b,
     ReqURL |-> STR_http \o HeaderGet(in.Header, STR_hostKey)
                \o URLString(in.URL),
     ReqHeader |-> in.Header,
     ReqMethod |-> in.Method]

\* json.Marshal returns no error for a struct of strings and a map of
\* string slices
MarshalFails(d) == FALSE

\* handleRequest up to the call of client.XAdd inside write
HandleRequestOn(r, inputs) ==
    /\ mainPC = "serving"
    /\ pc[r] = "idle"
    /\ \E in \in inputs, id \in IDs :
         LET read == ReadAll(in.Body, env.RequestSizeLimit, in.TransportFails)
             data == BuildRequestData(id, in, read.b)
         IN  /\ req' = [req EXCEPT ![r] = in]
             /\ IF ReadFailed(read)
                THEN /\ logs' = [logs EXCEPT
                                   ![r] = @ \o ReadFailureLogs(read.err)]
                     /\ resp' = [resp EXCEPT
                                   ![r].status = StatusInternalServerError]
                     /\ pc' = [pc EXCEPT ![r] = "done"]
                     /\ UNCHANGED <<reqData, reqJSON, xaddCalls>>
                ELSE IF MarshalFails(data)
                THEN /\ resp' = [resp EXCEPT
                                   ![r].status = StatusInternalServerError]
                     /\ logs' = [logs EXCEPT ![r] = Append(@,
                                   [msg |-> "Failed to marshal request: ",
                                    err |-> <<>>])]
                     /\ reqData' = [reqData EXCEPT ![r] = data]
                     /\ pc' = [pc EXCEPT ![r] = "done"]
                     /\ UNCHANGED <<reqJSON, xaddCalls>>
                ELSE /\ reqData' = [reqData EXCEPT ![r] = data]
                     /\ reqJSON' = [reqJSON EXCEPT ![r] = Marshal(data)]
                     /\ xaddCalls' = [xaddCalls EXCEPT ![r] = @ + 1]
                     /\ pc' = [pc EXCEPT ![r] = "xadd"]
                     /\ UNCHANGED <<logs, resp>>
    /\ UNCHANGED <<mainPC, env, rc, cmd, stream>>

HandleRequest(r) == HandleRequestOn(r, NarrowInputs)

HandleRequestWide(r) == HandleRequestOn(r, WideInputs)

\* what XADD can answer: an unreachable Addr fails every call, a reachable
\* broker appends the entry or rejects it
XAddOutcomes(client) ==
    IF Dialable(client.addr) THEN {<<>>, STR_eof} ELSE {STR_dial}

\* the broker's side of client.XAdd
XAdd(r) ==
    /\ pc[r] = "xadd"
    /\ \E cause \in XAddOutcomes(rc) :
         /\ cmd' = [cmd EXCEPT ![r] = [returned |-> TRUE, err |-> cause]]
         /\ stream' = IF cause = <<>>
                      THEN Append(stream, [Stream |-> env.StreamName,
                                           data |-> reqJSON[r]])
                      ELSE stream
    /\ pc' = [pc EXCEPT ![r] = "returned"]
    /\ UNCHANGED <<mainPC, env, rc, req, reqData, reqJSON, resp, logs,
                   xaddCalls>>

\* what write returns for the command's error
WriteResult_swallowed(id, cause) == <<>>
WriteResult(id, cause) ==
    IF cause # <<>> THEN PublishError(id, cause) ELSE <<>>

\* write after XAdd returned, and the rest of handleRequest
WriteReturn(r) ==
    /\ pc[r] = "returned"
    /\ LET err == WriteResult(reqData[r].ID, cmd[r].err)
       IN  IF err # <<>>
           THEN /\ resp' = [resp EXCEPT
                              ![r].status = StatusInternalServerError]
                /\ logs' = [logs EXCEPT ![r] = Append(@,
                      [msg |-> "Error asynchronous writing request to storage ",
                       err |-> err])]
           ELSE /\ logs' = [logs EXCEPT ![r] = Append(@,
                      [msg |-> "request accepted", err |-> <<>>])]
                /\ resp' = [resp EXCEPT ![r].status = StatusAccepted]
    /\ pc' = [pc EXCEPT ![r] = "done"]
    /\ UNCHANGED <<mainPC, env, rc, req, reqData, reqJSON, xaddCalls, cmd,
                   stream>>

----------------------------------------------------------------------------
(* Specifications *)

\* concurrent requests
Next ==
    \/ LoadEnv
    \/ SetUpRedis
    \/ ListenAndServe
    \/ \E r \in Reqs : HandleRequest(r)
    \/ \E r \in Reqs : XAdd(r)
    \/ \E r \in Reqs : WriteReturn(r)

Spec == Init /\ [][Next]_vars

\* one request, drawn from the wide inputs
NextOne ==
    \/ LoadEnv
    \/ SetUpRedis
    \/ ListenAndServe
    \/ HandleRequestWide(1)
    \/ XAdd(1)
    \/ WriteReturn(1)

SpecOne == Init /\ [][NextOne]_vars

----------------------------------------------------------------------------
(* Properties *)

\* the handler has taken request r
Handled(r) == pc[r] # "idle"

\* the body of request r arrived whole and within the limit
BodyRead(r) ==
    /\ Handled(r)
    /\ ~req[r].TransportFails
    /\ Len(req[r].Body) <= env.RequestSizeLimit

RECURSIVE SumCalls(_)
SumCalls(S) ==
    IF S = {} THEN 0
    ELSE LET r == CHOOSE x \in S : TRUE
         IN  xaddCalls[r] + SumCalls(S \ {r})

\* C1: with a limit of N bytes, a request whose body of exactly N bytes
\* arrives is taken to the append, and a request with a body of N+1 bytes is
\* answered 500 and never reaches the broker.
SizeLimitEnforced ==
    \A r \in Reqs :
        Handled(r) =>
            /\ (Len(req[r].Body) = env.RequestSizeLimit
                /\ ~req[r].TransportFails)
               => xaddCalls[r] = 1
            /\ Len(req[r].Body) = env.RequestSizeLimit + 1
               => /\ resp[r].status = StatusInternalServerError
                  /\ xaddCalls[r] = 0
                  /\ ~cmd[r].returned

SizeLimitWitness ==
    \E r1, r2 \in Reqs :
        /\ Handled(r1)
        /\ Len(req[r1].Body) = env.RequestSizeLimit
        /\ env.RequestSizeLimit > 0
        /\ xaddCalls[r1] = 1
        /\ pc[r2] = "done"
        /\ Len(req[r2].Body) = env.RequestSizeLimit + 1
        /\ resp[r2].status = StatusInternalServerError

\* C2: a request carries status 202 only after its own XAdd returned without
\* error, and an answered request carries 202 exactly when its own XAdd
\* returned without error.
AcceptedIffWritten ==
    \A r \in Reqs :
        /\ resp[r].status = StatusAccepted
           => cmd[r].returned /\ cmd[r].err = <<>>
        /\ pc[r] = "done"
           => (resp[r].status = StatusAccepted
               <=> (cmd[r].returned /\ cmd[r].err = <<>>))

AcceptedWitness ==
    \E r1, r2 \in Reqs :
        /\ pc[r1] = "done"
        /\ resp[r1].status = StatusAccepted
        /\ pc[r2] = "done"
        /\ cmd[r2].returned
        /\ cmd[r2].err # <<>>
        /\ resp[r2].status = StatusInternalServerError

\* C3: when the append of a request fails, the request is answered 500 with
\* no body, and the logged error of write contains the request's identifier
\* and the broker's cause.
BrokerFailurePropagated ==
    \A r \in Reqs :
        (pc[r] = "done" /\ cmd[r].returned /\ cmd[r].err # <<>>)
        => /\ resp[r].status = StatusInternalServerError
           /\ resp[r].body = <<>>
           /\ \E i \in 1..Len(logs[r]) :
                /\ Contains(logs[r][i].err, reqData[r].ID)
                /\ Contains(logs[r][i].err, cmd[r].err)

BrokerFailureWitness ==
    \E r1, r2 \in Reqs :
        /\ r1 # r2
        /\ pc[r1] = "done" /\ cmd[r1].err = STR_eof
        /\ pc[r2] = "done" /\ cmd[r2].err = STR_eof
        /\ reqData[r1].ID # reqData[r2].ID

\* C4: no request calls XAdd more than once, and the calls of XAdd never
\* outnumber the requests whose body was read.
AtMostOneAppend ==
    /\ \A r \in Reqs : xaddCalls[r] <= 1
    /\ SumCalls(Reqs) <= Cardinality({r \in Reqs : BodyRead(r)})
    /\ Len(stream) <= SumCalls(Reqs)

AtMostOneAppendWitness ==
    \E r1, r2 \in Reqs :
        /\ pc[r1] = "done" /\ cmd[r1].err # <<>> /\ xaddCalls[r1] = 1
        /\ pc[r2] = "done" /\ ~BodyRead(r2) /\ xaddCalls[r2] = 0

\* C5: the client is TLS-secured exactly when the certificate parses, and
\* its address is the one either branch of setUpRedis gives for the
\* configured address.
SameAddressBothBranches ==
    rc.set =>
        /\ rc.tls <=> AppendCertsFromPEM(env.TlsCert)
        /\ rc.addr = PlainClient(env).client.addr
        /\ ~TLSClient(env).fatal => rc.addr = TLSClient(env).client.addr

\* C6: a request is handled only by a process whose configuration loaded,
\* whose rc is set, and whose broker address is a redis URL or a host:port.
FatalOnBadAddress ==
    \A r \in Reqs :
        Handled(r) =>
            /\ rc.set
            /\ env # ZeroEnv
            /\ ParseURL(env.RedisAddress).ok \/ Dialable(env.RedisAddress)

\* C7: the bytes handed to write decode to the requestData they were made
\* from, and its body is the bytes the client sent.
RoundTrip ==
    \A r \in Reqs :
        xaddCalls[r] > 0 =>
            /\ Unmarshal(reqJSON[r]) = reqData[r]
            /\ reqData[r].ReqBody = req[r].Body

\* C9: every request that ended in a failure carries a status and has a log
\* record of the failure.
FailuresReported ==
    \A r \in Reqs :
        (pc[r] = "done" /\ (~BodyRead(r) \/ cmd[r].err # <<>>))
        => /\ resp[r].status = StatusInternalServerError
           /\ \E i \in 1..Len(logs[r]) : logs[r][i].err # <<>>

FailuresReportedWitness ==
    \E r1, r2 \in Reqs :
        /\ pc[r1] = "done" /\ req[r1].TransportFails
        /\ pc[r2] = "done"
        /\ \/ cmd[r2].err # <<>>
           \/ Len(req[r2].Body) > env.RequestSizeLimit

\* C10: the url of the requestData is "http://", the first value of the
\* Async-Original-Host header, the path of the request and, when there is a
\* query, "?" and the query.
URLReconstructed ==
    \A r \in Reqs :
        xaddCalls[r] > 0 =>
            reqData[r].ReqURL =
                STR_http \o HeaderGet(req[r].Header, STR_hostKey)
                \o req[r].URL.Path
                \o (IF req[r].URL.RawQuery # <<>>
                    THEN <<63>> \o req[r].URL.RawQuery ELSE <<>>)

====
